---- MODULE Spec2Model ----
(***************************************************************************)
(* Model of the hybrid RAG endpoint app/api/rag-alumni/route.js: the three *)
(* module-level caches, the query classifier, the structured search, the   *)
(* pagination bookkeeping and the POST / DELETE handlers.                  *)
(*                                                                         *)
(* JavaScript strings are TLA+ strings; String.prototype.includes, split,  *)
(* trim, toLowerCase and the regular expressions of the source are         *)
(* computed character by character by the operators below.                 *)
(***************************************************************************)
EXTENDS Integers, Sequences, FiniteSets, TLC

(***************************************************************************)
(* Bounds of the model.                                                    *)
(***************************************************************************)
\* number of records of the alumni collection of the data file
MaxAlumni == 11

\* number of words and phrases of a query handed to analyzeQueryType on its own
MaxWords == 2

\* the longest conversation of the chat page, in messages
MaxMessages == 4

\* the most requests of the chat page that wait for their response at a time
MaxInFlight == 2

(***************************************************************************)
(* JavaScript values that have no TLA+ counterpart.                        *)
(***************************************************************************)
null == "<null>"
undefined == "<undefined>"

(***************************************************************************)
(* String primitives.                                                      *)
(***************************************************************************)
Char(s, i) == SubSeq(s, i, i)

LowerLetters ==
    {"a", "b", "c", "d", "e", "f", "g", "h", "i", "j", "k", "l", "m",
     "n", "o", "p", "q", "r", "s", "t", "u", "v", "w", "x", "y", "z"}

UpperToLower ==
    [c \in {"A", "B", "C", "D", "E", "F", "G", "H", "I", "J", "K", "L", "M",
            "N", "O", "P", "Q", "R", "S", "T", "U", "V", "W", "X", "Y", "Z"} |->
        CASE c = "A" -> "a" [] c = "B" -> "b" [] c = "C" -> "c" [] c = "D" -> "d"
          [] c = "E" -> "e" [] c = "F" -> "f" [] c = "G" -> "g" [] c = "H" -> "h"
          [] c = "I" -> "i" [] c = "J" -> "j" [] c = "K" -> "k" [] c = "L" -> "l"
          [] c = "M" -> "m" [] c = "N" -> "n" [] c = "O" -> "o" [] c = "P" -> "p"
          [] c = "Q" -> "q" [] c = "R" -> "r" [] c = "S" -> "s" [] c = "T" -> "t"
          [] c = "U" -> "u" [] c = "V" -> "v" [] c = "W" -> "w" [] c = "X" -> "x"
          [] c = "Y" -> "y" [] c = "Z" -> "z"]

Digits == {"0", "1", "2", "3", "4", "5", "6", "7", "8", "9"}

\* \w of a JavaScript regular expression
IsWordChar(c) == c \in LowerLetters \cup DOMAIN UpperToLower \cup Digits \cup {"_"}

\* \s of a JavaScript regular expression (the queries of the model hold blanks only)
IsSpace(c) == c = " "

RECURSIVE toLowerCase(_)
toLowerCase(s) ==
    IF s = "" THEN ""
    ELSE LET c == Char(s, 1)
         IN  (IF c \in DOMAIN UpperToLower THEN UpperToLower[c] ELSE c)
                 \o toLowerCase(SubSeq(s, 2, Len(s)))

\* t occurs in s at position i
StartsAt(s, i, t) == i + Len(t) - 1 <= Len(s) /\ SubSeq(s, i, i + Len(t) - 1) = t

\* String.prototype.includes
Includes(s, t) == \E i \in 1..(Len(s) - Len(t) + 1) : StartsAt(s, i, t)

\* /\b(w)\b/.test(s) for a word w that starts and ends with a word character
WordTest(s, w) ==
    \E i \in 1..(Len(s) - Len(w) + 1) :
        /\ SubSeq(s, i, i + Len(w) - 1) = w
        /\ i = 1 \/ ~IsWordChar(Char(s, i - 1))
        /\ i + Len(w) - 1 = Len(s) \/ ~IsWordChar(Char(s, i + Len(w)))

\* /\b(w1|w2|...)\b/.test(s)
AnyWordTest(s, ws) == \E k \in 1..Len(ws) : WordTest(s, ws[k])

RECURSIVE trimStart(_)
trimStart(s) ==
    IF s # "" /\ IsSpace(Char(s, 1)) THEN trimStart(SubSeq(s, 2, Len(s))) ELSE s

RECURSIVE trimEnd(_)
trimEnd(s) ==
    IF s # "" /\ IsSpace(Char(s, Len(s))) THEN trimEnd(SubSeq(s, 1, Len(s) - 1)) ELSE s

\* String.prototype.trim
trim(s) == trimEnd(trimStart(s))

\* s.split(/\s+/): cur is the piece being read, i the next character
RECURSIVE SplitFrom(_, _, _)
SplitFrom(s, i, cur) ==
    IF i > Len(s) THEN <<cur>>
    ELSE IF IsSpace(Char(s, i))
         THEN IF i > 1 /\ IsSpace(Char(s, i - 1))
              THEN SplitFrom(s, i + 1, cur)
              ELSE <<cur>> \o SplitFrom(s, i + 1, "")
         ELSE SplitFrom(s, i + 1, cur \o Char(s, i))

split(s) == SplitFrom(s, 1, "")

\* number of elements of a sequence of strings that s includes
CountIncluded(s, seq) == Cardinality({k \in 1..Len(seq) : Includes(s, seq[k])})

\* Array.prototype.slice(0, n)
slice(seq, n) == SubSeq(seq, 1, IF Len(seq) < n THEN Len(seq) ELSE n)

(***************************************************************************)
(* analyzeQueryType                                                        *)
(***************************************************************************)
\* an explicitTypeCheck written with staff before the other types
explicitTypeCheckStaffFirst ==
    << [type |-> "staff",    words |-> <<"staff", "team member", "employee">>],
       [type |-> "alumni",   words |-> <<"alumni", "alumnus">>],
       [type |-> "fellows",  words |-> <<"fellow", "fellows">>],
       [type |-> "partners", words |-> <<"partner", "partners", "partnership">>],
       [type |-> "schools",  words |-> <<"school", "schools", "college", "university">>] >>

\* explicitTypeCheck, in the insertion order Object.entries walks it
explicitTypeCheck ==
    << [type |-> "alumni",   words |-> <<"alumni", "alumnus">>],
       [type |-> "fellows",  words |-> <<"fellow", "fellows">>],
       [type |-> "staff",    words |-> <<"staff", "team member", "employee">>],
       [type |-> "partners", words |-> <<"partner", "partners", "partnership">>],
       [type |-> "schools",  words |-> <<"school", "schools", "college", "university">>] >>

\* patterns, in the insertion order Object.entries walks it
patterns ==
    << [type |-> "staff",
        keywords |-> <<"ceo", "director", "manager", "coordinator",
                       "executive", "chief", "head of", "works at tfn">>,
        phrases |-> <<"who works", "team member", "work at">>,
        exclusions |-> <<"alumni", "fellow", "partner", "school">>],
       [type |-> "partners",
        keywords |-> <<"partnership", "collaborate", "organization",
                       "ministry", "bank", "ngo", "nonprofit", "corporate", "sponsor",
                       "fund", "support", "donor">>,
        phrases |-> <<"partner with", "works with", "collaborated with">>,
        exclusions |-> <<"alumni", "fellow", "staff", "school">>],
       [type |-> "alumni",
        keywords |-> <<"graduate", "ex-fellow", "former fellow", "graduated", "batch", "cohort">>,
        phrases |-> <<"who are alumni", "alumni of", "former tfn">>,
        exclusions |-> <<"current fellow", "staff", "partner">>],
       [type |-> "fellows",
        keywords |-> <<"current fellow", "selected fellow", "participant", "awardee", "grantee">>,
        phrases |-> <<"who are fellows", "fellows of", "active fellow">>,
        exclusions |-> <<"alumni", "former", "graduated">>],
       [type |-> "schools",
        keywords |-> <<"college", "university", "institution", "campus", "education partner">>,
        phrases |-> <<"which school", "schools of", "educational institution">>,
        exclusions |-> <<>>] >>

listIndicators == <<"all", "list", "every", "who are", "show me", "give me">>

\* the list words of the regular expression of the explicit path
explicitListWords == <<"all", "list", "every", "show me">>

\* a score that weighs a phrase like a keyword
patternScoreEqualWeights(lowerQuery, config) ==
    CountIncluded(lowerQuery, config.keywords) * 2
        + CountIncluded(lowerQuery, config.phrases) * 2

\* score of one entry of patterns: 2 per keyword, 4 per phrase
patternScore(lowerQuery, config) ==
    CountIncluded(lowerQuery, config.keywords) * 2
        + CountIncluded(lowerQuery, config.phrases) * 4

\* a loop over patterns that replaces bestMatch on score >= bestMatch.score
RECURSIVE bestMatchAtLeast(_, _, _)
bestMatchAtLeast(lowerQuery, k, bestMatch) ==
    IF k > Len(patterns) THEN bestMatch
    ELSE LET config == patterns[k]
             hasExclusion ==
                 \E e \in 1..Len(config.exclusions) :
                     Includes(lowerQuery, config.exclusions[e])
             score == patternScore(lowerQuery, config)
         IN  IF hasExclusion THEN bestMatchAtLeast(lowerQuery, k + 1, bestMatch)
             ELSE IF score >= bestMatch.score
                  THEN bestMatchAtLeast(lowerQuery, k + 1,
                                        [type |-> config.type, score |-> score])
                  ELSE bestMatchAtLeast(lowerQuery, k + 1, bestMatch)

\* the loop over patterns: bestMatch after the entries k..Len(patterns)
RECURSIVE bestMatchFrom(_, _, _)
bestMatchFrom(lowerQuery, k, bestMatch) ==
    IF k > Len(patterns) THEN bestMatch
    ELSE LET config == patterns[k]
             hasExclusion ==
                 \E e \in 1..Len(config.exclusions) :
                     Includes(lowerQuery, config.exclusions[e])
             score == patternScore(lowerQuery, config)
         IN  IF hasExclusion THEN bestMatchFrom(lowerQuery, k + 1, bestMatch)
             ELSE IF score > bestMatch.score
                  THEN bestMatchFrom(lowerQuery, k + 1,
                                     [type |-> config.type, score |-> score])
                  ELSE bestMatchFrom(lowerQuery, k + 1, bestMatch)

analyzeQueryType(query) ==
    LET lowerQuery == toLowerCase(query)
        explicit == {k \in 1..Len(explicitTypeCheck) :
                        AnyWordTest(lowerQuery, explicitTypeCheck[k].words)}
    IN  IF explicit # {}
        THEN LET first == CHOOSE k \in explicit : \A j \in explicit : k <= j
             IN  [isStructured |-> TRUE,
                  type |-> explicitTypeCheck[first].type,
                  confidence |-> 10,
                  wantsComplete |-> AnyWordTest(lowerQuery, explicitListWords),
                  query |-> lowerQuery]
        ELSE LET bestMatch == bestMatchFrom(lowerQuery, 1, [type |-> null, score |-> 0])
             IN  [isStructured |-> bestMatch.score > 0,
                  type |-> bestMatch.type,
                  confidence |-> bestMatch.score,
                  wantsComplete |->
                      \E k \in 1..Len(listIndicators) :
                          Includes(lowerQuery, listIndicators[k]),
                  query |-> lowerQuery]

(***************************************************************************)
(* Records of the structured data file.  A record is a function from the   *)
(* keys it has to strings; a key it lacks reads as undefined.              *)
(***************************************************************************)
Has(item, k) == k \in DOMAIN item

\* item.k as a condition: undefined and '' are falsy
Truthy(item, k) == Has(item, k) /\ item[k] # ""

\* `${item.k}` in a template string
Text(item, k) == IF Has(item, k) THEN item[k] ELSE "undefined"

\* the keys of a record, in the order the data file writes them
ItemKeys ==
    <<"name", "role", "type", "bio", "description", "contact_person",
      "profile_url", "cohort", "district", "location">>

\* JSON.stringify(item): the members k..Len(ItemKeys), sep before the next one
RECURSIVE StringifyFrom(_, _, _)
StringifyFrom(item, k, sep) ==
    IF k > Len(ItemKeys) THEN ""
    ELSE IF Has(item, ItemKeys[k])
         THEN sep \o "\"" \o ItemKeys[k] \o "\":\"" \o item[ItemKeys[k]] \o "\""
                  \o StringifyFrom(item, k + 1, ",")
         ELSE StringifyFrom(item, k + 1, sep)

JSONstringify(item) == "{" \o StringifyFrom(item, 1, "") \o "}"

(***************************************************************************)
(* searchStructuredData                                                    *)
(***************************************************************************)
maxDisplay == 3

\* a dataKey that is the type for every type
dataKeyUnmapped(type) == type

dataKeyOf(type) == IF type = "staff" THEN "staff_members" ELSE type

\* data[dataKey] || []
allItemsOf(data, type) ==
    IF dataKeyOf(type) \in DOMAIN data THEN data[dataKeyOf(type)] ELSE <<>>

\* items.map(item => ({ item, score: 1 }))
scoreOne(items) == [i \in 1..Len(items) |-> [item |-> items[i], score |-> 1]]

\* the alternatives of the name pattern: (?:who is|tell me about|find|show me)
namePrefixes == <<"who is", "tell me about", "find", "show me">>

\* (alumni|fellow|staff|partner|school) of the optional tail of the name pattern
nameSuffixes == <<"alumni", "fellow", "staff", "partner", "school">>

\* [a-z\s] under the i flag
IsNameChar(c) == c \in LowerLetters \/ c \in DOMAIN UpperToLower \/ IsSpace(c)

AllSpace(s) == \A i \in 1..Len(s) : IsSpace(Char(s, i))

\* the string from position m on is \s+(alumni|fellow|staff|partner|school) up to $
SuffixAt(q, m) ==
    \E k \in 1..Len(nameSuffixes) :
        LET t == Len(q) - Len(nameSuffixes[k]) + 1
        IN  /\ t > m
            /\ SubSeq(q, t, Len(q)) = nameSuffixes[k]
            /\ AllSpace(SubSeq(q, m, t - 1))

\* the pattern matches with its first alternative starting at position i:
\* an alternative, one blank at least, then one character at least of [a-z\s]
\* up to the end of the string
NameMatchAt(q, i) ==
    \E p \in 1..Len(namePrefixes) :
        LET j == i + Len(namePrefixes[p])
        IN  /\ StartsAt(q, i, namePrefixes[p])
            /\ j < Len(q)
            /\ IsSpace(Char(q, j))
            /\ \A n \in (j + 1)..Len(q) : IsNameChar(Char(q, n))

\* nameMatch[1] of the leftmost match: \s+ is greedy, ([a-z\s]+?) is lazy
NameGroup(q, i) ==
    LET p == CHOOSE p \in 1..Len(namePrefixes) : StartsAt(q, i, namePrefixes[p])
        j == i + Len(namePrefixes[p])
        nonSpace == {n \in j..Len(q) : ~IsSpace(Char(q, n))}
        k == IF nonSpace = {} THEN Len(q)
             ELSE CHOOSE n \in nonSpace : \A n2 \in nonSpace : n <= n2
        ends == {e \in k..Len(q) : e = Len(q) \/ SuffixAt(q, e + 1)}
        e == CHOOSE e \in ends : \A e2 \in ends : e <= e2
    IN  SubSeq(q, k, e)

\* nameMatch ? nameMatch[1].trim() : ''
searchNameOf(query) ==
    LET starts == {i \in 1..Len(query) : NameMatchAt(query, i)}
    IN  IF starts = {} THEN ""
        ELSE trim(NameGroup(query, CHOOSE i \in starts : \A i2 \in starts : i <= i2))

\* the score of one record in the targeted name search
nameScore(item, searchName) ==
    LET itemName == toLowerCase(IF Truthy(item, "name") THEN item.name ELSE "")
        nameWords == split(searchName)
        itemNameWords == split(itemName)
        Matching(w) ==
            \E n \in 1..Len(itemNameWords) :
                Includes(itemNameWords[n], w) \/ Includes(w, itemNameWords[n])
        nameOnly ==
            IF itemName = searchName THEN 100
            ELSE IF Includes(itemName, searchName) \/ Includes(searchName, itemName)
                 THEN 50
                 ELSE Cardinality({k \in 1..Len(nameWords) :
                          Len(nameWords[k]) > 2 /\ Matching(nameWords[k])}) * 20
        roleBonus ==
            IF /\ Truthy(item, "role")
               /\ \E n \in 1..Len(nameWords) :
                      Includes(toLowerCase(item.role), nameWords[n])
            THEN 10 ELSE 0
    IN  nameOnly + roleBonus

\* the score of one record in the generic search
genericScore(item, query) ==
    LET itemText == toLowerCase(JSONstringify(item))
        queryWords == split(query)
    IN  (IF Truthy(item, "name") /\ Includes(query, toLowerCase(item.name))
             THEN 10 ELSE 0)
        + (IF Truthy(item, "role") /\ Includes(query, toLowerCase(item.role))
             THEN 5 ELSE 0)
        + Cardinality({k \in 1..Len(queryWords) :
                          Len(queryWords[k]) > 3 /\ Includes(itemText, queryWords[k])})

\* insert x after every entry whose score is at least x.score
RECURSIVE InsertByScore(_, _)
InsertByScore(sorted, x) ==
    IF sorted = <<>> THEN <<x>>
    ELSE IF Head(sorted).score >= x.score
         THEN <<Head(sorted)>> \o InsertByScore(Tail(sorted), x)
         ELSE <<x>> \o sorted

\* .sort((a, b) => b.score - a.score), which is stable
\* scored records left in the order of the collection
Unsorted(seq) == seq

RECURSIVE SortByScore(_)
SortByScore(seq) ==
    IF seq = <<>> THEN <<>>
    ELSE InsertByScore(SortByScore(SubSeq(seq, 1, Len(seq) - 1)), seq[Len(seq)])

\* .filter(({ score }) => score > 0)
RECURSIVE PositiveOnly(_)
PositiveOnly(seq) ==
    IF seq = <<>> THEN <<>>
    ELSE (IF Head(seq).score > 0 THEN <<Head(seq)>> ELSE <<>>) \o PositiveOnly(Tail(seq))

\* a generic search that returns its scored records, none included
scoredOnly(scored, allItems) == scored

\* scored.length > 0 ? scored : allItems.slice(0, maxDisplay).map(...)
scoredOrFirst(scored, allItems) ==
    IF Len(scored) > 0 THEN scored ELSE scoreOne(slice(allItems, maxDisplay))

\* searchStructuredData below its showAll test: at most maxDisplay results
searchLimited(data, query, type, wantsComplete) ==
    LET allItems == allItemsOf(data, type)
        totalCount == Len(allItems)
        searchName == searchNameOf(query)
        byName == [i \in 1..Len(allItems) |->
                      [item |-> allItems[i], score |-> nameScore(allItems[i], searchName)]]
        generic == [i \in 1..Len(allItems) |->
                      [item |-> allItems[i], score |-> genericScore(allItems[i], query)]]
        scored == slice(SortByScore(PositiveOnly(generic)), maxDisplay)
    IN  IF searchName # "" /\ Len(searchName) > 2 /\ ~wantsComplete
        THEN [results |-> slice(SortByScore(PositiveOnly(byName)), maxDisplay),
              totalCount |-> totalCount]
        ELSE IF wantsComplete \/ Len(allItems) <= maxDisplay
        THEN [results |-> scoreOne(slice(allItems, maxDisplay)), totalCount |-> totalCount]
        ELSE [results |-> scoredOrFirst(scored, allItems), totalCount |-> totalCount]

\* a search that never returns more than maxDisplay results, showAll or not
searchIgnoringShowAll(data, query, type, wantsComplete, showAll) ==
    searchLimited(data, query, type, wantsComplete)

searchStructuredData(data, query, type, wantsComplete, showAll) ==
    IF showAll
    THEN [results |-> scoreOne(allItemsOf(data, type)),
          totalCount |-> Len(allItemsOf(data, type))]
    ELSE searchLimited(data, query, type, wantsComplete)

(***************************************************************************)
(* formatStructuredContext                                                 *)
(***************************************************************************)
\* the maxDisplay of formatStructuredContext
formatMaxDisplay == 3

\* `   Label: ${item.k}\n` when the line is written, nothing otherwise
Line(written, label, item, k) ==
    IF written THEN "   " \o label \o ": " \o Text(item, k) \o "\n" ELSE ""

\* item.k && item.k !== placeholder
Meaningful(item, k, placeholder) == Truthy(item, k) /\ item[k] # placeholder

\* the text one record adds to the context
formatItem(item, type, idx) ==
    LET nameLine == ToString(idx) \o ". Name: " \o Text(item, "name") \o "\n"
        bio == Line(Meaningful(item, "bio", "No biography available"), "Bio", item, "bio")
        description ==
            Line(Meaningful(item, "description", "No description available"),
                 "Description", item, "description")
    IN  CASE type = "staff" ->
                 nameLine \o Line(TRUE, "Role", item, "role") \o bio \o "\n"
          [] type = "partners" ->
                 nameLine \o Line(TRUE, "Type", item, "type") \o description
                     \o Line(Meaningful(item, "contact_person", "No biography available"),
                             "Contact", item, "contact_person")
                     \o "\n"
          [] type = "alumni" ->
                 nameLine \o Line(Truthy(item, "profile_url"), "Profile", item, "profile_url")
                     \o bio \o "\n"
          [] type = "fellows" ->
                 nameLine \o Line(Truthy(item, "cohort"), "Cohort", item, "cohort")
                     \o Line(Truthy(item, "role"), "Role", item, "role")
                     \o bio \o "\n"
          [] type = "schools" ->
                 nameLine \o Line(Truthy(item, "district"), "District", item, "district")
                     \o Line(Truthy(item, "location"), "Location", item, "location")
                     \o Line(Truthy(item, "type"), "Type", item, "type")
                     \o description
                     \o Line(Truthy(item, "profile_url"), "Profile", item, "profile_url")
                     \o "\n"
          [] OTHER -> ""

\* shown.forEach(...): the text of the records idx..Len(shown)
RECURSIVE formatItemsFrom(_, _, _)
formatItemsFrom(shown, type, idx) ==
    IF idx > Len(shown) THEN ""
    ELSE formatItem(shown[idx].item, type, idx) \o formatItemsFrom(shown, type, idx + 1)

\* totalCountOverride is a number; the default null is falsy like 0 and is passed as 0
formatStructuredContext(results, type, showAll, totalCountOverride) ==
    IF Len(results) = 0
    THEN [context |-> "", hasMore |-> FALSE, totalCount |-> 0, shownCount |-> 0]
    ELSE LET totalCount ==
                 IF totalCountOverride = 0
                 THEN Len(results) ELSE totalCountOverride
             hasMore == totalCount > formatMaxDisplay /\ ~showAll
             shown == IF showAll THEN results ELSE slice(results, formatMaxDisplay)
         IN  [context |->
                  "Found " \o ToString(totalCount) \o " " \o type
                      \o " (showing first " \o ToString(Len(shown))
                      \o (IF hasMore THEN " - more available" ELSE "") \o "):\n\n"
                      \o formatItemsFrom(shown, type, 1)
                      \o (IF hasMore
                          THEN "\n...and " \o ToString(totalCount - formatMaxDisplay)
                                   \o " more.\n"
                          ELSE ""),
              hasMore |-> hasMore,
              totalCount |-> totalCount,
              shownCount |-> Len(shown)]

(***************************************************************************)
(* The world of the handlers: the environment, the files on disk, the      *)
(* managed services, and the requests a client can send.                   *)
(***************************************************************************)
\* JavaScript null where the other values are objects
nullObject == [kind |-> "null"]

\* !v for a string or undefined
Falsy(v) == v = undefined \/ v = ""

CredKeys == {"accessKeyId", "secretAccessKey", "sessionToken"}

\* aws_creds of a request body: given is FALSE when the body has no aws_creds;
\* a key the object lacks reads as undefined
AbsentCreds ==
    [given |-> FALSE, accessKeyId |-> undefined, secretAccessKey |-> undefined,
     sessionToken |-> undefined]
EmptyCreds ==
    [given |-> TRUE, accessKeyId |-> undefined, secretAccessKey |-> undefined,
     sessionToken |-> undefined]
TokenOnlyCreds ==
    [given |-> TRUE, accessKeyId |-> undefined, secretAccessKey |-> undefined,
     sessionToken |-> "client-token"]
ClientCreds ==
    [given |-> TRUE, accessKeyId |-> "AKIACLIENT", secretAccessKey |-> "client-secret",
     sessionToken |-> "client-token"]

\* Object.keys(aws_creds)
ObjectKeys(c) == {k \in CredKeys : c[k] # undefined}

\* the credentials object handed to the Bedrock constructors
CredsObject(c) == [k \in CredKeys |-> c[k]]

\* public/json/combined_data.json
FileData ==
    [staff_members |->
         << [name |-> "Asha Rai", role |-> "CEO", bio |-> "Leads TFN"],
            [name |-> "Bina Thapa", role |-> "Finance Director",
             bio |-> "No biography available"],
            [name |-> "Chandra Lama", role |-> "Program Manager"],
            [name |-> "Dev Karki", role |-> "Director of staff"] >>,
     partners |->
         << [name |-> "Sita Bank", type |-> "corporate"],
            [name |-> "Sita Foundation", type |-> "ngo",
             description |-> "No description available"],
            [name |-> "Gita Trust", type |-> "ngo"] >>,
     alumni |-> [i \in 1..MaxAlumni |->
                    [name |-> "Alum " \o ToString(i), profile_url |-> "/alumni/" \o ToString(i)]],
     fellows |-> <<>>]

\* what loadStructuredData returns when the file cannot be read
FallbackData == [staff_members |-> <<>>, partners |-> <<>>]

\* k of vectorStore.asRetriever({ k: 3 })
retrieverK == 3

\* the chunks the retriever finds in public/vector-store
Corpus ==
    << [pageContent |-> "Teach For Nepal core values", metadata |-> [source |-> "handbook.pdf", page |-> "1"]],
       [pageContent |-> "Fellowship programme", metadata |-> [source |-> "handbook.pdf", page |-> "2"]],
       [pageContent |-> "Annual report", metadata |-> [source |-> "report.pdf", page |-> "7"]] >>

\* the text the model returns
LLMOutput == " Here is what I found. "

Err(name, message) == [name |-> name, message |-> message]

\* Error.prototype.toString
ErrToString(e) ==
    IF e.message = "" THEN e.name
    ELSE IF e.name = "" THEN e.message
    ELSE e.name \o ": " \o e.message

\* errors of the AWS SDK
AwsErrors ==
    { Err("ExpiredTokenException", "The security token included in the request is expired"),
      Err("AccessDeniedException", "AccessDenied: not authorized to perform bedrock:InvokeModel"),
      Err("ThrottlingException", "Too many requests, please wait") }

NoError == Err("", "")

\* where the first exception of a request comes from: no call after it runs.
\* "exists": fs.existsSync finds no vector store; "load": FaissStore.loadFromPython
\* rejects; "invoke": chain.invoke or retriever.invoke (embedding or LLM call) rejects
Faults ==
    {[at |-> "none", error |-> NoError], [at |-> "exists", error |-> NoError]}
        \cup {[at |-> a, error |-> e] : a \in {"load", "invoke"}, e \in AwsErrors}

\* the outcomes of the calls a request makes outside the process: whether
\* readFileSync succeeds, the first fault, the number of chunks retrieved
Externals ==
    {[fileOk |-> f, fault |-> x, docs |-> retrieverK] : f \in BOOLEAN, x \in Faults}
        \cup {[fileOk |-> f, fault |-> [at |-> "none", error |-> NoError], docs |-> 0] :
                 f \in BOOLEAN}

\* the query texts of the model: unstructured, list, name search with one match,
\* name search with two matches, generic search, a type whose collection is empty
QueryTexts ==
    {"what are the core values", "List All Alumni", "who is the ceo",
     "find sita partner", "staff director", "list fellows"}

\* the query member of a request body
Queries == QueryTexts \cup {undefined, "", "   "}

\* the request bodies of the model: every query with and without showAll, sent
\* without and with client credentials, and two bodies whose aws_creds has no
\* access key
Requests ==
    [method : {"POST"}, query : Queries, showAll : BOOLEAN,
     aws_creds : {AbsentCreds, ClientCreds}]
        \cup [method : {"POST"}, query : {undefined, "List All Alumni"}, showAll : {FALSE},
              aws_creds : {EmptyCreds, TokenOnlyCreds}]

(***************************************************************************)
(* The state.                                                              *)
(***************************************************************************)
VARIABLES
    cachedVectorStore,     \* let cachedVectorStore: nullObject or a store
    cachedLLM,             \* let cachedLLM: nullObject or a model
    cachedStructuredData,  \* let cachedStructuredData: nullObject or the parsed file
    env,                   \* process.env
    request,               \* the request the last handler served
    previousMethod,        \* the method of the request served before it
    response,              \* the response the last handler returned
    log,                   \* what the last handler did on the way
    call,                  \* a call of one function on its own: arguments and result
    messages,              \* useState([]) of Home: the conversation
    input,                 \* useState('') of Home: the text of the input field
    loading,               \* useState(false) of Home
    showDemoWarning,       \* useState(false) of Home
    crashed,               \* the last render of Home threw
    inFlight,              \* the fetches of /api/rag-alumni that wait for their response
    answered               \* the fetch the last step resolved, and how

vars ==
    <<cachedVectorStore, cachedLLM, cachedStructuredData, env, request, previousMethod,
      response, log, call, messages, input, loading, showDemoWarning, crashed, inFlight,
      answered>>

\* the variables of the handlers
handlerVars ==
    <<cachedVectorStore, cachedLLM, cachedStructuredData, env, request, previousMethod,
      response, log>>

\* no function is called on its own
NoCall == [fn |-> "none"]

\* the variables of the chat page
pageVars == <<messages, input, loading, showDemoWarning, crashed, inFlight, answered>>

\* the last step resolved no fetch
NoAnswer == [outcome |-> "none"]

\* Home as it is mounted
PageInit ==
    /\ messages = <<>>
    /\ input = ""
    /\ loading = FALSE
    /\ showDemoWarning = FALSE
    /\ crashed = FALSE
    /\ inFlight = <<>>
    /\ answered = NoAnswer

caches == <<cachedVectorStore, cachedLLM, cachedStructuredData>>

\* the log of a handler that loaded, built and called nothing
\* dataFileRead: readFileSync was called; structuredData: what loadStructuredData
\* returned; storeLoaded: loadFromPython resolved; llmBuilt: a model was constructed;
\* vectorStore, model: the objects steps 3 and 4 obtained; thrownAt: where the
\* exception came from; prompt: the inputs of the chain
NoLog ==
    [dataFileRead |-> FALSE, structuredData |-> nullObject, storeLoaded |-> FALSE,
     llmBuilt |-> FALSE, vectorStore |-> nullObject, model |-> nullObject,
     thrownAt |-> "none", prompt |-> nullObject]

(***************************************************************************)
(* POST, steps 1 and 2: the classification and the structured search.      *)
(***************************************************************************)
\* structuredSources of POST
structuredSourcesOf(results, type) ==
    [i \in 1..Len(results) |->
        [source |-> "Structured Data", page |-> type, displayType |-> type,
         metadata |-> results[i].item, rawData |-> results[i].item,
         isStructured |-> TRUE]]

\* a structuredResponse whose hasMore forgets the showAll flag
structuredResponseIgnoringShowAll(analysis, results, totalStructuredCount, formatted, showAll) ==
    LET isSpecificQuery == ~analysis.wantsComplete /\ Len(results) = 1
    IN  [hasMore |-> ~isSpecificQuery /\ totalStructuredCount > 3,
         totalCount |-> totalStructuredCount,
         shownCount |-> IF formatted.shownCount # 0 THEN formatted.shownCount
                        ELSE Len(results)]

\* structuredResponse of POST
structuredResponseOf(analysis, results, totalStructuredCount, formatted, showAll) ==
    LET isSpecificQuery == ~analysis.wantsComplete /\ Len(results) = 1
        wouldShowMore == totalStructuredCount > 3 /\ ~showAll
    IN  [hasMore |-> ~isSpecificQuery /\ wouldShowMore,
         totalCount |-> totalStructuredCount,
         shownCount |-> IF formatted.shownCount # 0 THEN formatted.shownCount
                        ELSE Len(results)]

\* what POST has before step 2 and keeps when the query is not structured or
\* the search finds nothing
NoStructured ==
    [structuredContext |-> "", structuredSources |-> <<>>,
     structuredResponse |-> [hasMore |-> FALSE, totalCount |-> 0, shownCount |-> 0]]

\* analysis.isStructured && analysis.type
isStructuredQuery(analysis) == analysis.isStructured /\ analysis.type # null

\* the search and the formatting of step 2 of POST
searchAndFormat(analysis, structuredData, showAll) ==
    LET searchResult ==
            searchStructuredData(structuredData, analysis.query, analysis.type,
                                 analysis.wantsComplete, showAll)
        results == searchResult.results
        totalStructuredCount == searchResult.totalCount
        formatted ==
            formatStructuredContext(results, analysis.type, showAll, totalStructuredCount)
    IN  IF Len(results) > 0
        THEN [structuredContext |-> formatted.context,
              structuredSources |-> structuredSourcesOf(results, analysis.type),
              structuredResponse |->
                  structuredResponseOf(analysis, results, totalStructuredCount,
                                       formatted, showAll)]
        ELSE NoStructured

\* step 2 of POST, on the data loadStructuredData returns for a structured query
structuredStep(analysis, structuredData, showAll) ==
    IF isStructuredQuery(analysis)
    THEN searchAndFormat(analysis, structuredData, showAll)
    ELSE NoStructured

\* analyzeQueryType on the query texts of the model, computed once
AnalysisOf == [q \in QueryTexts |-> analyzeQueryType(q)]

\* step 2 on the query texts and the data of the model, computed once; the data
\* is the content of the file (fromFile) or the fallback of loadStructuredData
StructuredOf ==
    [q \in QueryTexts, showAll \in BOOLEAN, fromFile \in BOOLEAN |->
        structuredStep(AnalysisOf[q], IF fromFile THEN FileData ELSE FallbackData, showAll)]

(***************************************************************************)
(* The caches' loaders.  Each returns the value and the cache it leaves.   *)
(***************************************************************************)
\* a loader that caches what it returns, the fallback included
loadStructuredDataCachingFallback(fileOk) ==
    IF cachedStructuredData # nullObject
    THEN [value |-> cachedStructuredData, cache |-> cachedStructuredData, read |-> FALSE]
    ELSE IF fileOk
         THEN [value |-> FileData, cache |-> FileData, read |-> TRUE]
         ELSE [value |-> FallbackData, cache |-> FallbackData, read |-> TRUE]

loadStructuredData(fileOk) ==
    IF cachedStructuredData # nullObject
    THEN [value |-> cachedStructuredData, cache |-> cachedStructuredData, read |-> FALSE]
    ELSE IF fileOk
         THEN [value |-> FileData, cache |-> FileData, read |-> TRUE]
         ELSE [value |-> FallbackData, cache |-> nullObject, read |-> TRUE]

\* the messages getVectorStore rethrows as they are
IsAuthMessage(message) ==
    \/ Includes(message, "ExpiredToken")
    \/ Includes(message, "InvalidToken")
    \/ Includes(message, "NotAuthorizedException")

\* what the catch block of getVectorStore throws for a rejected load
loadError(error) ==
    IF IsAuthMessage(error.message) THEN error
    ELSE Err("Error", "Cannot load vector store. Error: " \o error.message)

\* loadError on the errors of the model, computed once
LoadErrorOf == [e \in AwsErrors |-> loadError(e)]

NotFoundError == Err("Error", "Vector store not found at: public/vector-store")

\* thrown is NoError when the store is returned
getVectorStore(creds, fault) ==
    IF cachedVectorStore # nullObject
    THEN [thrown |-> NoError, value |-> cachedVectorStore, cache |-> cachedVectorStore,
          loaded |-> FALSE]
    ELSE IF fault.at = "exists"
    THEN [thrown |-> NotFoundError,
          value |-> nullObject, cache |-> nullObject, loaded |-> FALSE]
    ELSE IF fault.at = "load"
    THEN [thrown |-> LoadErrorOf[fault.error],
          value |-> nullObject, cache |-> nullObject, loaded |-> FALSE]
    ELSE LET store == [kind |-> "FaissStore", credentials |-> creds]
         IN  [thrown |-> NoError, value |-> store, cache |-> store, loaded |-> TRUE]

getLLM(creds) ==
    IF cachedLLM = nullObject
    THEN LET model == [kind |-> "ChatBedrockConverse", credentials |-> creds]
         IN  [value |-> model, cache |-> model, built |-> TRUE]
    ELSE [value |-> cachedLLM, cache |-> cachedLLM, built |-> FALSE]

(***************************************************************************)
(* POST                                                                    *)
(***************************************************************************)
\* the test of the catch block for expired or invalid credentials
IsExpiredError(error) ==
    LET errorMessage == IF error.message # "" THEN error.message ELSE ErrToString(error)
        errorName == error.name
    IN  \/ errorName = "ExpiredTokenException"
        \/ Includes(errorName, "Expired")
        \/ Includes(errorMessage, "ExpiredToken")
        \/ Includes(errorMessage, "expired")
        \/ Includes(errorMessage, "InvalidToken")
        \/ Includes(errorMessage, "NotAuthorizedException")
        \/ Includes(errorMessage, "UnrecognizedClientException")
        \/ Includes(errorMessage, "SignatureDoesNotMatch")
        \/ Includes(errorMessage, "InvalidSignatureException")

errorTypeOf(error) ==
    LET errorMessage == IF error.message # "" THEN error.message ELSE ErrToString(error)
    IN  IF IsExpiredError(error) THEN "expired_token"
        ELSE IF Includes(errorMessage, "AccessDenied")
                    \/ Includes(errorMessage, "UnauthorizedOperation")
             THEN "access_denied"
        ELSE IF Includes(errorMessage, "AWS credentials not configured")
             THEN "missing_credentials"
        ELSE "error"

userMessageOf(error) ==
    CASE errorTypeOf(error) = "expired_token" ->
             "AWS credentials have expired or are invalid. Please refresh your credentials and try again."
      [] errorTypeOf(error) = "access_denied" ->
             "Access denied. Please verify your AWS permissions."
      [] errorTypeOf(error) = "missing_credentials" ->
             "AWS credentials are not configured."
      [] OTHER -> IF error.message # "" THEN error.message ELSE "An error occurred"

NoCredentialsError == Err("Error", "No valid AWS credentials available (client or .env)")

NotConfiguredError == Err("Error", "AWS credentials not configured")

\* every error a request of the model can throw
Errors ==
    {NoCredentialsError, NotConfiguredError, NotFoundError}
        \cup AwsErrors \cup {LoadErrorOf[e] : e \in AwsErrors}

\* what the catch block of POST decides for an error: whether it clears the
\* caches, and the body of its response
caught(error) ==
    [clears |-> IsExpiredError(error),
     body |-> [error |-> userMessageOf(error), details |-> ErrToString(error),
               status |-> "error", errorType |-> errorTypeOf(error)]]

\* caught on the errors of the model, computed once
CaughtOf == [e \in Errors |-> caught(e)]

\* the catch block of POST, entered with the caches as the try block left them
catch(error, vectorStore, llm, data, done) ==
    [cachedVectorStore |-> IF CaughtOf[error].clears THEN nullObject ELSE vectorStore,
     cachedLLM |-> IF CaughtOf[error].clears THEN nullObject ELSE llm,
     cachedStructuredData |-> IF CaughtOf[error].clears THEN nullObject ELSE data,
     response |-> [status |-> 500, body |-> CaughtOf[error].body],
     log |-> done]

\* credentials of POST: the client's when aws_creds has a key, the environment's otherwise
credentialsOf(req) ==
    IF req.aws_creds.given /\ Cardinality(ObjectKeys(req.aws_creds)) > 0
    THEN CredsObject(req.aws_creds)
    ELSE [accessKeyId |-> env.AWS_ACCESS_KEY_ID,
          secretAccessKey |-> env.AWS_SECRET_ACCESS_KEY,
          sessionToken |-> env.AWS_SESSION_TOKEN]

\* if (aws_creds): the caches of the store and of the model after steps 3 and 4
clearOnClientCreds(req, cache) == IF req.aws_creds.given THEN nullObject ELSE cache

\* ragSources of POST
ragSourcesOf(ragDocs) ==
    [i \in 1..Len(ragDocs) |->
        [source |-> ragDocs[i].metadata.source,
         page |-> ragDocs[i].metadata.page,
         content_preview |-> SubSeq(ragDocs[i].pageContent, 1,
                                    IF Len(ragDocs[i].pageContent) < 150
                                    THEN Len(ragDocs[i].pageContent) ELSE 150) \o "...",
         isStructured |-> FALSE]]

\* docs.map(doc => doc.pageContent).join('\n\n')
RECURSIVE joinPageContent(_)
joinPageContent(docs) ==
    IF docs = <<>> THEN ""
    ELSE IF Len(docs) = 1 THEN docs[1].pageContent
    ELSE docs[1].pageContent \o "\n\n" \o joinPageContent(Tail(docs))

\* the chunks retriever.invoke returns when the store yields n of them
ragDocsOf(n) == SubSeq(Corpus, 1, n)

\* ragSourcesOf and joinPageContent on the retrievals of the model, computed once
RetrievalOf ==
    [n \in {0, retrieverK} |->
        [ragSources |-> ragSourcesOf(ragDocsOf(n)),
         document_context |-> joinPageContent(ragDocsOf(n))]]

\* answer.trim()
Answer == trim(LLMOutput)

\* responseData of POST
responseDataOf(analysis, part, ragSources, vectorStoreCache) ==
    LET responseData ==
            [answer |-> Answer,
             sources |-> part.structuredSources \o ragSources,
             searchMode |-> "rag",
             structuredResultsCount |-> Len(part.structuredSources),
             ragResultsCount |-> Len(ragSources),
             structuredType |-> analysis.type,
             cached |-> vectorStoreCache # nullObject,
             status |-> "success"]
    IN  IF Len(part.structuredSources) > 0
        THEN [hasMore |-> part.structuredResponse.hasMore,
              totalCount |-> part.structuredResponse.totalCount,
              shownCount |-> part.structuredResponse.shownCount] @@ responseData
        ELSE responseData

\* steps 3 to 7 of POST: analysis and part are what steps 1 and 2 computed,
\* structuredData what loadStructuredData returned to step 2
\* a prompt whose structured part is structuredContext as it is, empty or not
structuredContextAsIs(part) == part.structuredContext

\* structured_context: () => structuredContext || 'No structured data relevant ...'
structured_context(part) ==
    IF part.structuredContext # "" THEN part.structuredContext
    ELSE "No structured data relevant to this query."

retrieveAndAnswer(req, ext, credentials, analysis, structuredData, part) ==
    LET data == IF isStructuredQuery(analysis) THEN structuredData.cache
                ELSE cachedStructuredData
        vectorStore == getVectorStore(credentials, ext.fault)
        model == getLLM(credentials)
        storeCache == clearOnClientCreds(req, vectorStore.cache)
        llmCache == clearOnClientCreds(req, model.cache)
        retrieval == RetrievalOf[ext.docs]
        done == [dataFileRead |-> isStructuredQuery(analysis) /\ structuredData.read,
                 structuredData |-> IF isStructuredQuery(analysis) THEN structuredData.value
                                    ELSE nullObject,
                 thrownAt |-> IF vectorStore.thrown # NoError
                              THEN (IF ext.fault.at = "exists" THEN "exists" ELSE "load")
                              ELSE IF ext.fault.at = "invoke" THEN "invoke" ELSE "none",
                 storeLoaded |-> vectorStore.loaded,
                 llmBuilt |-> vectorStore.thrown = NoError /\ model.built,
                 vectorStore |-> vectorStore.value,
                 model |-> IF vectorStore.thrown = NoError THEN model.value ELSE nullObject,
                 prompt |-> nullObject]
    IN  IF vectorStore.thrown # NoError
        THEN catch(vectorStore.thrown, vectorStore.cache, cachedLLM, data, done)
        ELSE IF ext.fault.at = "invoke"
        THEN catch(ext.fault.error, storeCache, llmCache, data, done)
        ELSE [cachedVectorStore |-> storeCache,
              cachedLLM |-> llmCache,
              cachedStructuredData |-> data,
              response |->
                  [status |-> 200,
                   body |-> responseDataOf(analysis, part, retrieval.ragSources, storeCache)],
              log |-> [done EXCEPT !.prompt =
                          [structured_context |-> structured_context(part),
                           document_context |-> retrieval.document_context,
                           question |-> req.query]]]

\* steps 1 to 7 of POST, for a request that passed the checks of its head
answerQuery(req, ext, credentials) ==
    retrieveAndAnswer(req, ext, credentials, AnalysisOf[req.query],
                      loadStructuredData(ext.fileOk),
                      StructuredOf[req.query, req.showAll,
                                   loadStructuredData(ext.fileOk).value = FileData])

\* !query || query.trim().length === 0
isBlank(query) == Falsy(query) \/ Len(trim(query)) = 0

\* isBlank on the queries of the model, computed once
IsBlankOf == [q \in Queries |-> isBlank(q)]

\* a handler that tests the environment before it tests the query
handleEnvironmentFirst(req, ext) ==
    LET credentials == credentialsOf(req)
    IN  IF Falsy(credentials.accessKeyId)
        THEN catch(NoCredentialsError,
                   cachedVectorStore, cachedLLM, cachedStructuredData,
                   [NoLog EXCEPT !.thrownAt = "credentials"])
        ELSE IF Falsy(env.AWS_REGION) \/ Falsy(env.AWS_ACCESS_KEY_ID)
        THEN catch(NotConfiguredError,
                   cachedVectorStore, cachedLLM, cachedStructuredData,
                   [NoLog EXCEPT !.thrownAt = "environment"])
        ELSE IF IsBlankOf[req.query]
        THEN [cachedVectorStore |-> cachedVectorStore,
              cachedLLM |-> cachedLLM,
              cachedStructuredData |-> cachedStructuredData,
              response |-> [status |-> 400, body |-> [error |-> "Query is required"]],
              log |-> NoLog]
        ELSE answerQuery(req, ext, credentials)

\* the handler of POST /api/rag-alumni: the caches, the response and the log it leaves
handlePOST(req, ext) ==
    LET credentials == credentialsOf(req)
    IN  IF Falsy(credentials.accessKeyId)
        THEN catch(NoCredentialsError,
                   cachedVectorStore, cachedLLM, cachedStructuredData,
                   [NoLog EXCEPT !.thrownAt = "credentials"])
        ELSE IF IsBlankOf[req.query]
        THEN [cachedVectorStore |-> cachedVectorStore,
              cachedLLM |-> cachedLLM,
              cachedStructuredData |-> cachedStructuredData,
              response |-> [status |-> 400, body |-> [error |-> "Query is required"]],
              log |-> NoLog]
        ELSE IF Falsy(env.AWS_REGION) \/ Falsy(env.AWS_ACCESS_KEY_ID)
        THEN catch(NotConfiguredError,
                   cachedVectorStore, cachedLLM, cachedStructuredData,
                   [NoLog EXCEPT !.thrownAt = "environment"])
        ELSE answerQuery(req, ext, credentials)

\* the state a handler leaves
Leave(req, after) ==
    /\ cachedVectorStore' = after.cachedVectorStore
    /\ cachedLLM' = after.cachedLLM
    /\ cachedStructuredData' = after.cachedStructuredData
    /\ request' = req
    /\ previousMethod' = request.method
    /\ response' = after.response
    /\ log' = after.log
    /\ UNCHANGED <<env, call>>
    /\ UNCHANGED pageVars

POST(req, ext) == Leave(req, handlePOST(req, ext))

(***************************************************************************)
(* DELETE                                                                  *)
(***************************************************************************)
DeleteRequest ==
    [method |-> "DELETE", query |-> undefined, showAll |-> FALSE, aws_creds |-> AbsentCreds]

\* a DELETE that knows the two older caches only
DeleteKeepingStructuredData ==
    /\ cachedVectorStore' = nullObject
    /\ cachedLLM' = nullObject
    /\ request' = DeleteRequest
    /\ previousMethod' = request.method
    /\ response' = [status |-> 200, body |-> [message |-> "Cache cleared successfully"]]
    /\ log' = NoLog
    /\ UNCHANGED <<cachedStructuredData, env, call>>
    /\ UNCHANGED pageVars

DELETE ==
    /\ cachedVectorStore' = nullObject
    /\ cachedLLM' = nullObject
    /\ cachedStructuredData' = nullObject
    /\ request' = DeleteRequest
    /\ previousMethod' = request.method
    /\ response' = [status |-> 200, body |-> [message |-> "Cache cleared successfully"]]
    /\ log' = NoLog
    /\ UNCHANGED <<env, call>>
    /\ UNCHANGED pageVars

(***************************************************************************)
(* The specification.                                                      *)
(***************************************************************************)
\* process.env: the region and the access key may each be set or not
Environments ==
    [AWS_REGION : {undefined, "us-east-1"},
     AWS_ACCESS_KEY_ID : {undefined, "AKIAENV"},
     AWS_SECRET_ACCESS_KEY : {"env-secret"},
     AWS_SESSION_TOKEN : {undefined}]

Init ==
    /\ cachedVectorStore = nullObject
    /\ cachedLLM = nullObject
    /\ cachedStructuredData = nullObject
    /\ env \in Environments
    /\ request = [method |-> "none", query |-> undefined, showAll |-> FALSE,
                  aws_creds |-> AbsentCreds]
    /\ previousMethod = "none"
    /\ response = [status |-> 0, body |-> nullObject]
    /\ log = NoLog
    /\ call = NoCall
    /\ PageInit

Next ==
    \/ \E req \in Requests, ext \in Externals : POST(req, ext)
    \/ DELETE

Spec == Init /\ [][Next]_vars

(***************************************************************************)
(* Properties.                                                             *)
(***************************************************************************)
IsPOST == request.method = "POST"

\* the last handler was a POST that returned its responseData
Succeeded == IsPOST /\ response.status = 200

\* the last handler was a POST that ended in its catch block
Failed == IsPOST /\ response.status = 500

CachesEmpty ==
    /\ cachedVectorStore = nullObject
    /\ cachedLLM = nullObject
    /\ cachedStructuredData = nullObject

\* step 2 of the last POST searched the data loadStructuredData returned
Searched == Succeeded /\ log.structuredData # nullObject

\* the collection the last POST searched
TargetedCollection == allItemsOf(log.structuredData, response.body.structuredType)

\* the request carries client credentials with an access key
SentAccessKey == request.aws_creds.given /\ ~Falsy(request.aws_creds.accessKeyId)

\* C1: a structured query sent without showAll is answered with the first 10
\* records of the targeted collection when that collection has 10 records or more.
C1_FirstTenRecords ==
    (Searched /\ ~request.showAll /\ Len(TargetedCollection) >= 10)
        => /\ response.body.structuredResultsCount = 10
           /\ \A i \in 1..10 : response.body.sources[i].rawData = TargetedCollection[i]

\* C2: in a successful response to a structured query hasMore is true exactly
\* when totalCount > shownCount.
C2_HasMoreIffMoreExist ==
    (Searched /\ "hasMore" \in DOMAIN response.body)
        => (response.body.hasMore <=> response.body.totalCount > response.body.shownCount)

\* C3: a structured query sent with showAll = true on a non-empty collection is
\* answered with every record of the collection, in order, as structured sources,
\* with shownCount = totalCount = structuredResultsCount = the size of the
\* collection and hasMore = false.
C3_ViewAllReturnsEverything ==
    (Searched /\ request.showAll /\ Len(TargetedCollection) > 0)
        => /\ response.body.structuredResultsCount = Len(TargetedCollection)
           /\ \A i \in 1..Len(TargetedCollection) :
                  /\ response.body.sources[i].isStructured
                  /\ response.body.sources[i].rawData = TargetedCollection[i]
           /\ "hasMore" \in DOMAIN response.body
           /\ response.body.hasMore = FALSE
           /\ response.body.shownCount = Len(TargetedCollection)
           /\ response.body.totalCount = Len(TargetedCollection)

\* a showAll request was answered with more records than a page holds
C3_Witness ==
    /\ Searched
    /\ request.showAll
    /\ Len(TargetedCollection) > maxDisplay
    /\ response.body.structuredResultsCount = Len(TargetedCollection)

\* C4: every successful response has the members answer, sources, context,
\* hasMore and totalCount.
C4_ResponseMembers ==
    Succeeded
        => {"answer", "sources", "context", "hasMore", "totalCount"}
               \subseteq DOMAIN response.body

\* an access key is available to the request: the client's when aws_creds has a
\* key, the environment's otherwise
HasAccessKey(req) == ~Falsy(credentialsOf(req).accessKeyId)

QueryRequired == [status |-> 400, body |-> [error |-> "Query is required"]]

NoCredentialsDetails == ErrToString(NoCredentialsError)

\* C5 as stated: a POST whose query is missing, empty or blank is answered with
\* 400 'Query is required' whatever the credentials, and leaves the caches unchanged.
C5_BlankQueryAlways400 ==
    [][(request'.method = "POST" /\ IsBlankOf[request'.query])
           => (response' = QueryRequired /\ UNCHANGED caches)]_vars

\* C5 as amended: a POST whose query is missing, empty or blank leaves the caches
\* unchanged; it is answered with 400 'Query is required' when an access key is
\* available, and with 500 'No valid AWS credentials available' when none is.
C5_BlankQuery ==
    [][(request'.method = "POST" /\ IsBlankOf[request'.query])
           => /\ UNCHANGED caches
              /\ IF HasAccessKey(request')
                 THEN response' = QueryRequired
                 ELSE /\ response'.status = 500
                      /\ response'.body.details = NoCredentialsDetails]_vars

\* a blank query was refused with 400 while the three caches were filled
C5_Witness ==
    /\ IsPOST
    /\ IsBlankOf[request.query]
    /\ response = QueryRequired
    /\ cachedVectorStore # nullObject
    /\ cachedLLM # nullObject
    /\ cachedStructuredData # nullObject

\* C6: a request that fails because the credentials are expired or missing
\* leaves the three caches empty.
C6_CredentialFailureClearsCaches ==
    (Failed /\ (\/ response.body.errorType = "expired_token"
                \/ log.thrownAt \in {"credentials", "environment"}))
        => CachesEmpty

\* C7: a request that fails in the load of the vector store or in a Bedrock call
\* (embedding or LLM) leaves the three caches empty.
C7_ServiceFailureClearsCaches ==
    (Failed /\ log.thrownAt \in {"load", "invoke"}) => CachesEmpty

\* C8: a request with client credentials that hold an access key passes the
\* checks of credentials whether or not the environment has AWS_ACCESS_KEY_ID.
C8_ClientCredentialsSuffice ==
    (IsPOST /\ SentAccessKey /\ ~Falsy(env.AWS_REGION))
        => log.thrownAt \notin {"credentials", "environment"}

\* C9: a request with client credentials is answered by a vector store and a
\* model that were constructed with the credentials of that request.
C9_AnsweredWithOwnCredentials ==
    (Succeeded /\ SentAccessKey)
        => /\ log.vectorStore.credentials = CredsObject(request.aws_creds)
           /\ log.model.credentials = CredsObject(request.aws_creds)

CacheCleared == [status |-> 200, body |-> [message |-> "Cache cleared successfully"]]

\* C10 as stated: DELETE leaves the three caches empty, and the first POST after
\* it reads the data file, loads the vector store and constructs a model.
C10_DeleteThenReloadAll ==
    /\ request.method = "DELETE" => CachesEmpty
    /\ (IsPOST /\ previousMethod = "DELETE")
           => (log.dataFileRead /\ log.storeLoaded /\ log.llmBuilt)

\* C10 as amended: DELETE leaves the three caches empty from any state; the first
\* POST after it takes nothing from a cache: the data it searches was read from
\* the file, the store it gets was loaded from disk and the model it gets was
\* constructed; when it succeeds it has loaded the store and constructed the
\* model, and it has read the data file exactly when its query is structured.
C10_DeleteThenReload ==
    /\ request.method = "DELETE" => (CachesEmpty /\ response = CacheCleared)
    /\ (IsPOST /\ previousMethod = "DELETE")
           => /\ log.structuredData # nullObject => log.dataFileRead
              /\ log.vectorStore # nullObject => log.storeLoaded
              /\ log.model # nullObject => log.llmBuilt
    /\ (Succeeded /\ previousMethod = "DELETE")
           => /\ log.storeLoaded
              /\ log.llmBuilt
              /\ log.dataFileRead <=> response.body.structuredType # null

\* the first POST after a DELETE succeeded and reloaded the three caches' values
C10_Witness ==
    /\ Succeeded
    /\ previousMethod = "DELETE"
    /\ log.dataFileRead
    /\ log.storeLoaded
    /\ log.llmBuilt

\* the structured part of a prompt for which step 2 found nothing
NoStructuredContext == "No structured data relevant to this query."

\* what step 2 made of the last request
LastStructured ==
    StructuredOf[request.query, request.showAll, log.structuredData = FileData]

\* the formatted context of step 2 names every record step 2 returned
NamesEverySource ==
    [q \in QueryTexts, showAll \in BOOLEAN, fromFile \in BOOLEAN |->
        LET part == StructuredOf[q, showAll, fromFile]
        IN  \A i \in 1..Len(part.structuredSources) :
                Includes(part.structuredContext,
                         "Name: " \o part.structuredSources[i].rawData.name \o "\n")]

C11_PlaceholderWitness ==
    /\ Succeeded
    /\ AnalysisOf[request.query].isStructured
    /\ response.body.structuredResultsCount = 0
    /\ log.prompt.structured_context = NoStructuredContext

\* C12: in every successful response sources is the structured records of the
\* prompt followed by the document chunks of the prompt, and it is not empty.
C12_SourcesCitePrompt ==
    Succeeded
        => /\ response.body.sources
                  = LastStructured.structuredSources
                      \o RetrievalOf[response.body.ragResultsCount].ragSources
           /\ Len(response.body.sources) > 0

(***************************************************************************)
(* The functions of the structured search, each called on its own.         *)
(***************************************************************************)
\* words and phrases a query is made of: entity words, keywords, a phrase,
\* exclusion terms, list indicators and a word that means nothing
Words ==
    {"alumni", "Staff", "fellows", "school", "partner",
     "CEO", "director", "bank", "who works", "graduated", "participant",
     "fellowship", "who are", "give me", "list", "really", "the"}

WordLists == UNION {[1..n -> Words] : n \in 1..MaxWords}

\* the words of ws with one space between them
RECURSIVE JoinWords(_)
JoinWords(ws) ==
    IF Len(ws) = 1 THEN ws[1] ELSE ws[1] \o " " \o JoinWords(Tail(ws))

\* a data file whose staff names share words
NameData ==
    [staff_members |->
         << [name |-> "Ram", role |-> "Teacher"],
            [name |-> "Sharma Ram Kumar", role |-> "Teacher"],
            [name |-> "Ram Kumar Sharma", role |-> "Principal"],
            [name |-> "Hari Ram", role |-> "Coach"] >>,
     partners |-> << [name |-> "Sita Bank", type |-> "corporate"] >>]

\* analysis.type of a structured query
Types == {"staff", "partners", "alumni", "fellows", "schools"}

\* analysis.query of the queries handed to searchStructuredData
SearchQueries ==
    {"find ram kumar sharma", "find zed", "who is the ceo", "tell me about sita partner",
     "staff director", "list all alumni", "zzz"}

AnalyzeCalls ==
    {[fn |-> "analyzeQueryType", words |-> ws, query |-> JoinWords(ws),
      returned |-> FALSE, result |-> nullObject] : ws \in WordLists}

SearchCalls ==
    [fn : {"searchStructuredData"}, data : {FileData, NameData}, query : SearchQueries,
     type : Types, wantsComplete : BOOLEAN, showAll : BOOLEAN,
     returned : {FALSE}, result : {nullObject}]

\* results of a search: the first n records of a collection; totalCountOverride:
\* the size of the collection, or nothing
FormatCalls ==
    {[fn |-> "formatStructuredContext",
      results |-> scoreOne(slice(allItemsOf(FileData, t), n)), type |-> t,
      showAll |-> a,
      totalCountOverride |-> IF o THEN Len(allItemsOf(FileData, t)) ELSE 0,
      returned |-> FALSE, result |-> nullObject] :
        t \in Types, n \in 0..MaxAlumni, a \in BOOLEAN, o \in BOOLEAN}

InitFunctions ==
    /\ cachedVectorStore = nullObject
    /\ cachedLLM = nullObject
    /\ cachedStructuredData = nullObject
    /\ env = [AWS_REGION |-> "us-east-1", AWS_ACCESS_KEY_ID |-> "AKIAENV",
              AWS_SECRET_ACCESS_KEY |-> "env-secret", AWS_SESSION_TOKEN |-> undefined]
    /\ request = [method |-> "none", query |-> undefined, showAll |-> FALSE,
                  aws_creds |-> AbsentCreds]
    /\ previousMethod = "none"
    /\ response = [status |-> 0, body |-> nullObject]
    /\ log = NoLog
    /\ call \in AnalyzeCalls \cup SearchCalls \cup FormatCalls
    /\ PageInit

CallAnalyzeQueryType ==
    /\ call.fn = "analyzeQueryType"
    /\ ~call.returned
    /\ call' = [call EXCEPT !.returned = TRUE, !.result = analyzeQueryType(call.query)]
    /\ UNCHANGED handlerVars
    /\ UNCHANGED pageVars

CallSearchStructuredData ==
    /\ call.fn = "searchStructuredData"
    /\ ~call.returned
    /\ call' = [call EXCEPT !.returned = TRUE,
                            !.result = searchStructuredData(call.data, call.query, call.type,
                                                            call.wantsComplete, call.showAll)]
    /\ UNCHANGED handlerVars
    /\ UNCHANGED pageVars

CallFormatStructuredContext ==
    /\ call.fn = "formatStructuredContext"
    /\ ~call.returned
    /\ call' = [call EXCEPT !.returned = TRUE,
                            !.result = formatStructuredContext(call.results, call.type,
                                                               call.showAll,
                                                               call.totalCountOverride)]
    /\ UNCHANGED handlerVars
    /\ UNCHANGED pageVars

NextFunctions ==
    \/ CallAnalyzeQueryType
    \/ CallSearchStructuredData
    \/ CallFormatStructuredContext

SpecFunctions == InitFunctions /\ [][NextFunctions]_vars

(***************************************************************************)
(* Properties of analyzeQueryType.                                         *)
(***************************************************************************)
\* analyzeQueryType has returned
Analyzed == call.fn = "analyzeQueryType" /\ call.returned

\* the entity type that each entity word of Words names
EntityWordType ==
    [w \in {"alumni", "Staff", "fellows", "school", "partner"} |->
        CASE w = "alumni" -> "alumni"
          [] w = "Staff" -> "staff"
          [] w = "fellows" -> "fellows"
          [] w = "school" -> "schools"
          [] w = "partner" -> "partners"]

\* the entity types the words of the query name
MentionedTypes ==
    {EntityWordType[call.words[i]] :
        i \in {j \in DOMAIN call.words : call.words[j] \in DOMAIN EntityWordType}}

\* the order in which explicit entity words are looked for
TypeOrder == <<"alumni", "fellows", "staff", "partners", "schools">>

\* C13: analyzeQueryType returns isStructured = true exactly when it returns a type
\* other than null; a query with an entity word is structured with confidence 10,
\* whatever keywords, phrases or exclusion terms it has.
C13_StructuredIffTyped ==
    Analyzed
        => /\ call.result.isStructured <=> call.result.type # null
           /\ MentionedTypes # {}
                  => (call.result.isStructured /\ call.result.confidence = 10)

\* a query with the entity word partner, which excludes staff, and the staff
\* keyword ceo was classified by its entity word
C13_Witness ==
    /\ Analyzed
    /\ call.words = <<"CEO", "partner">>
    /\ call.result.isStructured
    /\ call.result.type = "partners"
    /\ call.result.confidence = 10

Excluded(k) ==
    \E e \in DOMAIN patterns[k].exclusions :
        Includes(toLowerCase(call.query), patterns[k].exclusions[e])

\* 2 * (matched keywords) + 4 * (matched phrases) of the entry k of patterns
ScoreOf(k) ==
    2 * Cardinality({i \in DOMAIN patterns[k].keywords :
                        Includes(toLowerCase(call.query), patterns[k].keywords[i])})
    + 4 * Cardinality({i \in DOMAIN patterns[k].phrases :
                          Includes(toLowerCase(call.query), patterns[k].phrases[i])})

\* the entries that are not excluded, score above 0, more than every entry that is
\* not excluded before them and no less than every one after them
Winners ==
    {k \in DOMAIN patterns :
        /\ ~Excluded(k)
        /\ ScoreOf(k) > 0
        /\ \A j \in DOMAIN patterns :
               ~Excluded(j) => IF j < k THEN ScoreOf(j) < ScoreOf(k)
                               ELSE ScoreOf(j) <= ScoreOf(k)}

\* C15: for a query without entity word, no type with an exclusion term in the
\* query is returned; the type returned is the one with the highest score
\* 2 * keywords + 4 * phrases among the others, the earliest of patterns on a tie,
\* and null when every score is 0.
C15_BestPatternWins ==
    (Analyzed /\ MentionedTypes = {})
        => IF Winners = {}
           THEN call.result.type = null /\ call.result.confidence = 0
           ELSE \E k \in Winners :
                    /\ call.result.type = patterns[k].type
                    /\ call.result.confidence = ScoreOf(k)

\* two types scored the same and the earlier one was returned, and a type with a
\* higher score was passed over for its exclusion term
C15_Witness ==
    /\ Analyzed
    /\ MentionedTypes = {}
    /\ \E j, k \in DOMAIN patterns :
           /\ j < k
           /\ ~Excluded(j) /\ ~Excluded(k)
           /\ ScoreOf(j) = ScoreOf(k)
           /\ ScoreOf(j) > 0
           /\ call.result.type = patterns[j].type

\* a type that scored above 0 was passed over for its exclusion term
C15_ExclusionWitness ==
    /\ Analyzed
    /\ MentionedTypes = {}
    /\ \E k \in DOMAIN patterns :
           Excluded(k) /\ ScoreOf(k) > 0 /\ call.result.type # patterns[k].type

\* C16: wantsComplete is true for every query with a list indicator, with or
\* without an entity word.
C16_ListIndicatorWantsComplete ==
    (Analyzed /\ \E i \in DOMAIN call.words : call.words[i] \in {"who are", "give me", "list"})
        => call.result.wantsComplete

(***************************************************************************)
(* Properties of searchStructuredData and formatStructuredContext.         *)
(***************************************************************************)
\* searchStructuredData has returned
SearchReturned == call.fn = "searchStructuredData" /\ call.returned

\* the member of the data file that holds the records of each type
CollectionKey ==
    [t \in Types |-> IF t = "staff" THEN "staff_members" ELSE t]

\* the collection the call targets
CallCollection ==
    IF CollectionKey[call.type] \in DOMAIN call.data
    THEN call.data[CollectionKey[call.type]]
    ELSE <<>>

\* the call takes the targeted name search
NamePath ==
    /\ ~call.showAll
    /\ ~call.wantsComplete
    /\ Len(searchNameOf(call.query)) > 2

\* the call takes the generic scored search
GenericPath ==
    /\ ~call.showAll
    /\ ~call.wantsComplete
    /\ ~NamePath
    /\ Len(CallCollection) > maxDisplay

LowerName(item) == toLowerCase(IF Truthy(item, "name") THEN item.name ELSE "")

\* 3: the name equals the search name; 2: one contains the other; 1: neither
Tier(item) ==
    IF LowerName(item) = searchNameOf(call.query) THEN 3
    ELSE IF \/ Includes(LowerName(item), searchNameOf(call.query))
            \/ Includes(searchNameOf(call.query), LowerName(item))
         THEN 2
         ELSE 1

\* the words of the search name, longer than 2, that match a word of the name
MatchedWords(item) ==
    LET nameWords == split(searchNameOf(call.query))
        itemNameWords == split(LowerName(item))
    IN  Cardinality({k \in DOMAIN nameWords :
                        /\ Len(nameWords[k]) > 2
                        /\ \E n \in DOMAIN itemNameWords :
                               \/ Includes(itemNameWords[n], nameWords[k])
                               \/ Includes(nameWords[k], itemNameWords[n])})

\* every result scores above 0 and no result scores more than one before it
PositiveAndSorted ==
    /\ \A i \in DOMAIN call.result.results : call.result.results[i].score > 0
    /\ \A i, j \in DOMAIN call.result.results :
           i < j => call.result.results[i].score >= call.result.results[j].score

\* C18 as stated: in the name search and in the generic search every result scores
\* above 0 and the results are in non-increasing score order; in the name search an
\* exact match ranks before a partial match, which ranks before a record matched
\* on name words only.
C18_RankedByTier ==
    (SearchReturned /\ (NamePath \/ GenericPath))
        => /\ PositiveAndSorted
           /\ NamePath
                  => \A i, j \in DOMAIN call.result.results :
                         Tier(call.result.results[i].item) > Tier(call.result.results[j].item)
                             => i < j

\* C18 as amended: in the name search and in the generic search every result scores
\* above 0 and the results are in non-increasing score order; in the name search an
\* exact match ranks before a partial match, and a partial match ranks before a
\* record matched on one name word only.  A record matched on several name words
\* (20 per word, 10 more for its role) can rank before a partial match.
C18_RankedByScore ==
    (SearchReturned /\ (NamePath \/ GenericPath))
        => /\ PositiveAndSorted
           /\ NamePath
                  => \A i, j \in DOMAIN call.result.results :
                         LET a == call.result.results[i].item
                             b == call.result.results[j].item
                         IN  (\/ Tier(a) = 3 /\ Tier(b) = 2
                              \/ Tier(a) = 2 /\ Tier(b) = 1 /\ MatchedWords(b) <= 1)
                                 => i < j

\* a name search returned an exact match, then a record matched on words, then a
\* partial match, by scores that decrease
C18_Witness ==
    /\ SearchReturned
    /\ NamePath
    /\ Len(call.result.results) = 3
    /\ Tier(call.result.results[1].item) = 3
    /\ Tier(call.result.results[3].item) = 2
    /\ call.result.results[1].score > call.result.results[2].score
    /\ call.result.results[2].score > call.result.results[3].score

\* C19 as stated: the result list is not empty when the targeted collection is not
\* empty, on every path.
C19_NeverEmpty ==
    (SearchReturned /\ Len(CallCollection) > 0) => Len(call.result.results) > 0

\* C19 as amended: when the targeted collection is not empty, the result list is not
\* empty on the showAll, list and generic paths (the generic search falls back to
\* the first records when no record scores above 0); the name search has no such
\* fallback and returns an empty list exactly when no record scores above 0.
C19_FallbackOutsideNameSearch ==
    (SearchReturned /\ Len(CallCollection) > 0)
        => IF NamePath
           THEN Len(call.result.results) = 0
                    <=> \A n \in DOMAIN CallCollection :
                            /\ Tier(CallCollection[n]) = 1
                            /\ MatchedWords(CallCollection[n]) = 0
                            /\ nameScore(CallCollection[n], searchNameOf(call.query)) = 0
           ELSE Len(call.result.results) > 0

\* a generic search in which no record scored above 0 returned the first records
C19_Witness ==
    /\ SearchReturned
    /\ GenericPath
    /\ \A n \in DOMAIN CallCollection : genericScore(CallCollection[n], call.query) = 0
    /\ Len(call.result.results) = maxDisplay
    /\ \A i \in 1..maxDisplay : call.result.results[i].item = CallCollection[i]

\* a name search in which no record scored above 0 returned nothing
C19_EmptyWitness ==
    /\ SearchReturned
    /\ NamePath
    /\ Len(CallCollection) > 0
    /\ Len(call.result.results) = 0

\* formatStructuredContext has returned
FormatReturned == call.fn = "formatStructuredContext" /\ call.returned

\* s ends with t
EndsWith(s, t) == Len(t) <= Len(s) /\ SubSeq(s, Len(s) - Len(t) + 1, Len(s)) = t

\* C20: when formatStructuredContext appends '...and N more.', N is totalCount
\* minus shownCount.
C20_TrailerCountsTheRest ==
    (FormatReturned /\ call.result.hasMore)
        => EndsWith(call.result.context,
                    "\n...and " \o ToString(call.result.totalCount - call.result.shownCount)
                        \o " more.\n")

(***************************************************************************)
(* The bookkeeping of a successful response.                               *)
(***************************************************************************)
\* the members POST adds to responseData when there are structured sources
PaginationMembers == {"hasMore", "totalCount", "shownCount"}

C21_CompleteWitness ==
    /\ Succeeded
    /\ request.showAll
    /\ response.body.structuredResultsCount = MaxAlumni
    /\ PaginationMembers \subseteq DOMAIN response.body
    /\ ~response.body.hasMore

\* C22: a request with a non-empty query for which no access key is available from
\* the client or the environment is answered with HTTP 500, errorType
\* 'missing_credentials' and the message 'AWS credentials are not configured.'.
C22_MissingCredentialsReported ==
    (IsPOST /\ ~IsBlankOf[request.query] /\ ~SentAccessKey
            /\ Falsy(env.AWS_ACCESS_KEY_ID))
        => /\ response.status = 500
           /\ response.body.errorType = "missing_credentials"
           /\ response.body.error = "AWS credentials are not configured."

\* what the handler answers instead: the message of its first check, unclassified;
\* 'missing_credentials' is answered only to requests that have an access key
C22_NeverForMissingKey ==
    /\ (IsPOST /\ ~HasAccessKey(request))
           => /\ response.status = 500
              /\ response.body.errorType = "error"
              /\ response.body.error = NoCredentialsError.message
    /\ (Failed /\ response.body.errorType = "missing_credentials")
           => HasAccessKey(request)

(***************************************************************************)
(* The caches.                                                             *)
(***************************************************************************)
\* the handler that answered req with resp and left lg got as far as step 3 of POST
ReachedStores(req, resp, lg) ==
    /\ req.method = "POST"
    /\ resp.status # 400
    /\ lg.thrownAt \notin {"credentials", "environment"}

\* the handler got as far as step 2 of POST and called loadStructuredData there
ReachedStructuredData(req, resp, lg) ==
    /\ ReachedStores(req, resp, lg)
    /\ isStructuredQuery(AnalysisOf[req.query])

\* the handler was answered with the expired-token error
ExpiredTokenAnswer(resp) == resp.status = 500 /\ resp.body.errorType = "expired_token"

\* the request is served with credentials of the client (line 367)
WithClientCredentials(req) ==
    req.method = "POST" /\ req.aws_creds.given /\ Cardinality(ObjectKeys(req.aws_creds)) > 0

\* the request has an aws_creds object, empty or not (line 457)
WithClientObject(req) == req.method = "POST" /\ req.aws_creds.given

\* a cache had a value and the handler left another one or none
Dropped(cache, cacheAfter) == cache # nullObject /\ cacheAfter # cache

\* a failed load leaves its cache empty, and the caches hold nothing but what a load
\* returned
FailedLoadsLeaveNothing ==
    /\ cachedStructuredData' \in {nullObject, FileData}
    /\ cachedVectorStore' # nullObject => cachedVectorStore'.kind = "FaissStore"
    /\ (ReachedStores(request', response', log') /\ log'.thrownAt \in {"exists", "load"})
           => cachedVectorStore' = nullObject
    /\ (ReachedStructuredData(request', response', log') /\ log'.dataFileRead
            /\ log'.structuredData = FallbackData)
           => cachedStructuredData' = nullObject

\* a request that finds a cache empty loads again
EmptyCachesAreRetried ==
    /\ (ReachedStores(request', response', log') /\ cachedVectorStore = nullObject)
           => log'.storeLoaded \/ log'.thrownAt \in {"exists", "load"}
    /\ (ReachedStructuredData(request', response', log') /\ cachedStructuredData = nullObject)
           => log'.dataFileRead

\* a request that finds a cache filled uses its value and loads nothing
FilledCachesAreReused ==
    /\ (ReachedStores(request', response', log') /\ cachedVectorStore # nullObject)
           => /\ ~log'.storeLoaded
              /\ log'.thrownAt \notin {"exists", "load"}
              /\ log'.vectorStore = cachedVectorStore
    /\ (ReachedStructuredData(request', response', log')
            /\ cachedStructuredData # nullObject)
           => /\ ~log'.dataFileRead
              /\ log'.structuredData = cachedStructuredData

C23_EmptyObjectWitness ==
    /\ Succeeded
    /\ WithClientObject(request)
    /\ ~WithClientCredentials(request)
    /\ ~log.storeLoaded
    /\ log.vectorStore # nullObject
    /\ cachedVectorStore = nullObject
    /\ cachedLLM = nullObject

(***************************************************************************)
(* The chat page: Home of app/page.js.  The timestamps of the messages are *)
(* left out.                                                               *)
(***************************************************************************)
\* the queries of three of the QuickButtons: a list of a collection with more
\* records than are shown, a list of a small collection, an unstructured question
QuickQueries == {"List all alumni", "Who are the partners?", "What is the vision of TFN?"}

\* what the user types into the input field
InputTexts == {"", " ", "hi"}

\* !text.trim() on the texts of the page, computed once
BlankText == [t \in InputTexts \cup QuickQueries |-> Len(trim(t)) = 0]

\* the body /api/rag-alumni answers a query of the page with when it succeeds,
\* computed once: responseData of POST with the data of the file and retrieverK chunks
PageDataOf ==
    [q \in QuickQueries, showAll \in BOOLEAN |->
        responseDataOf(analyzeQueryType(q),
                       structuredStep(analyzeQueryType(q), FileData, showAll),
                       RetrievalOf[retrieverK].ragSources,
                       [kind |-> "FaissStore", credentials |-> nullObject])]

\* the message processQuery appends for the user
UserMessage(query) == [role |-> "user", content |-> query]

\* the message processQuery makes of a response
AssistantMessage(data, query) ==
    [role |-> "assistant", content |-> data, originalQuery |-> query]

\* the message processQuery appends when the request failed
ErrorMessage(text) == [role |-> "assistant", content |-> [answer |-> text], error |-> TRUE]

\* the texts of the error messages, without the warning sign they begin with
CredentialsExpiredText == "AWS credentials expired. Please update in Settings."

ServerErrorText == "Server error. Please try again."

QueryFailedText == "Query failed. Please try again."

\* hasStructuredData of Home
hasStructuredData(msg) ==
    /\ "sources" \in DOMAIN msg.content
    /\ \E i \in DOMAIN msg.content.sources : msg.content.sources[i].isStructured

\* renderStructuredData renders the 'View all' button of the message
ShowsViewAll(msg) ==
    /\ msg.role = "assistant"
    /\ hasStructuredData(msg)
    /\ "hasMore" \in DOMAIN msg.content
    /\ msg.content.hasMore
    /\ "originalQuery" \in DOMAIN msg
    /\ msg.originalQuery # ""

\* the render of Home throws: the disabled attribute of the Send button is
\* loading || !input.trim() || showDemoWarning || credsFailed, and no scope of Home
\* declares credsFailed, so the expression throws a ReferenceError when its first
\* three operands are false
RenderThrows(text, isLoading, warning) == ~isLoading /\ ~BlankText[text] /\ ~warning

\* setMessages of the replaceLast branch: the last assistant message becomes the
\* new one, and nothing changes when there is none
RECURSIVE ReplaceLastAssistant(_, _, _)
ReplaceLastAssistant(prev, i, message) ==
    IF i = 0 THEN prev
    ELSE IF prev[i].role = "assistant" THEN [prev EXCEPT ![i] = message]
    ELSE ReplaceLastAssistant(prev, i - 1, message)

\* the sequence without its k-th element
WithoutFetch(fetches, k) == SubSeq(fetches, 1, k - 1) \o SubSeq(fetches, k + 1, Len(fetches))

\* processQuery up to its fetch.  clicked is the index of the message whose
\* 'View all' button made the call, 0 for the other controls; the code does
\* not pass it
processQuery(query, showAll, replaceLast, clicked) ==
    /\ ~BlankText[query]
    /\ Len(messages) + Len(inFlight) + (IF replaceLast THEN 1 ELSE 2) <= MaxMessages
    /\ Len(inFlight) < MaxInFlight
    /\ loading' = TRUE
    /\ input' = IF replaceLast THEN input ELSE ""
    /\ messages' = IF replaceLast THEN messages ELSE Append(messages, UserMessage(query))
    /\ inFlight' = Append(inFlight,
                          [query |-> query, showAll |-> showAll, replaceLast |-> replaceLast,
                           clicked |-> clicked,
                           message |-> IF clicked = 0 THEN nullObject
                                       ELSE messages[clicked]])
    /\ answered' = NoAnswer
    /\ UNCHANGED <<showDemoWarning, crashed>>

\* onChange of the input field, which is disabled when loading || showDemoWarning
TypeInput(text) ==
    /\ ~crashed
    /\ ~(loading \/ showDemoWarning)
    /\ input' = text
    /\ crashed' = RenderThrows(text, loading, showDemoWarning)
    /\ answered' = NoAnswer
    /\ UNCHANGED <<messages, loading, showDemoWarning, inFlight>>
    /\ UNCHANGED <<handlerVars, call>>

\* onKeyDown of the input field with the Enter key
PressEnter ==
    /\ ~crashed
    /\ ~(loading \/ showDemoWarning)
    /\ IF ~loading /\ ~BlankText[input] /\ ~showDemoWarning
       THEN processQuery(input, FALSE, FALSE, 0)
       ELSE UNCHANGED pageVars
    /\ UNCHANGED <<handlerVars, call>>

\* onClick of a QuickButton, which is rendered while there are no messages and
\* disabled when showDemoWarning || loading
ClickQuickButton(query) ==
    /\ ~crashed
    /\ Len(messages) = 0
    /\ ~(showDemoWarning \/ loading)
    /\ processQuery(query, FALSE, FALSE, 0)
    /\ UNCHANGED <<handlerVars, call>>

\* onClick of the 'View all' button of the i-th message
ClickViewAll(i) ==
    /\ ~crashed
    /\ i \in DOMAIN messages
    /\ ShowsViewAll(messages[i])
    /\ processQuery(messages[i].originalQuery, TRUE, TRUE, i)
    /\ UNCHANGED <<handlerVars, call>>

\* handleNewChat
handleNewChat ==
    /\ ~crashed
    /\ messages' = <<>>
    /\ input' = ""
    /\ answered' = NoAnswer
    /\ UNCHANGED <<loading, showDemoWarning, crashed, inFlight>>
    /\ UNCHANGED <<handlerVars, call>>

\* testCredsAndShowWarning called by the effects of Home, on mount and on focus:
\* it leaves showDemoWarning as it is when the stored result is fresh, and sets it
\* to the result of the test otherwise
handleFocus(stored, failed) ==
    /\ ~crashed
    /\ showDemoWarning' = IF stored THEN showDemoWarning ELSE failed
    /\ crashed' = RenderThrows(input, loading, showDemoWarning')
    /\ answered' = NoAnswer
    /\ UNCHANGED <<messages, input, loading, inFlight>>
    /\ UNCHANGED <<handlerVars, call>>

\* the messages processQuery leaves when its fetch resolved with outcome "ok"
\* (res.ok), "notOk" (a status outside 200..299) or "throws" (fetch or res.json
\* rejected); credsFailed is what testCredsAndShowWarning returned
messagesAfter(fetch, outcome, credsFailed) ==
    IF outcome = "ok"
    THEN LET message == AssistantMessage(PageDataOf[fetch.query, fetch.showAll], fetch.query)
         IN  IF fetch.replaceLast
             THEN ReplaceLastAssistant(messages, Len(messages), message)
             ELSE Append(messages, message)
    ELSE Append(messages,
                ErrorMessage(IF credsFailed THEN CredentialsExpiredText
                             ELSE IF outcome = "notOk" THEN ServerErrorText
                             ELSE QueryFailedText))

\* processQuery from the response of its fetch to its end.  After 'notOk' the
\* stored result of the credentials test is removed before the test, so the test
\* sets showDemoWarning; after 'throws' the stored result may be fresh
Respond(k, outcome, stored, credsFailed) ==
    /\ k \in DOMAIN inFlight
    /\ outcome = "notOk" => ~stored
    /\ outcome = "ok" => (~stored /\ ~credsFailed)
    /\ inFlight' = WithoutFetch(inFlight, k)
    /\ answered' = [outcome |-> outcome, fetch |-> inFlight[k]]
    /\ IF crashed
       THEN UNCHANGED <<messages, input, loading, showDemoWarning, crashed>>
       ELSE /\ messages' = messagesAfter(inFlight[k], outcome, credsFailed)
            /\ loading' = FALSE
            /\ showDemoWarning' = IF outcome = "ok" \/ stored THEN showDemoWarning
                                  ELSE credsFailed
            /\ crashed' = RenderThrows(input, FALSE, showDemoWarning')
            /\ UNCHANGED input
    /\ UNCHANGED <<handlerVars, call>>

InitPage ==
    /\ cachedVectorStore = nullObject
    /\ cachedLLM = nullObject
    /\ cachedStructuredData = nullObject
    /\ env = [AWS_REGION |-> "us-east-1", AWS_ACCESS_KEY_ID |-> "AKIAENV",
              AWS_SECRET_ACCESS_KEY |-> "env-secret", AWS_SESSION_TOKEN |-> undefined]
    /\ request = [method |-> "none", query |-> undefined, showAll |-> FALSE,
                  aws_creds |-> AbsentCreds]
    /\ previousMethod = "none"
    /\ response = [status |-> 0, body |-> nullObject]
    /\ log = NoLog
    /\ call = NoCall
    /\ PageInit

NextPage ==
    \/ \E text \in InputTexts : TypeInput(text)
    \/ PressEnter
    \/ \E query \in QuickQueries : ClickQuickButton(query)
    \/ \E i \in 1..MaxMessages : ClickViewAll(i)
    \/ handleNewChat
    \/ \E stored \in BOOLEAN, failed \in BOOLEAN : handleFocus(stored, failed)
    \/ \E k \in 1..MaxInFlight, outcome \in {"ok", "notOk", "throws"},
          stored \in BOOLEAN, credsFailed \in BOOLEAN :
           Respond(k, outcome, stored, credsFailed)

SpecPage == InitPage /\ [][NextPage]_vars

\* C24: in the chat page at most one query request to /api/rag-alumni is in flight
\* at any time: while loading is true no control can start another processQuery.
C24_OneRequestInFlight == Len(inFlight) <= 1

\* a 'View all' button was clicked while the request of an earlier click on it
\* was in flight
C24_TwoViewAllInFlight ==
    /\ ~crashed
    /\ loading
    /\ Len(inFlight) = 2
    /\ inFlight[1].replaceLast
    /\ inFlight[2].replaceLast

\* the last step resolved the fetch of a 'View all' click with res.ok
ViewAllSucceeded(answer) == answer.outcome = "ok" /\ answer.fetch.replaceLast

\* the message a 'View all' click was made on is where it was, unchanged
StillThere(fetch, conversation) ==
    /\ fetch.clicked \in DOMAIN conversation
    /\ conversation[fetch.clicked] = fetch.message

\* C25: a successful 'View all' click on an assistant message replaces that very
\* message with the full-result response and leaves every other message of the
\* conversation unchanged, wherever the clicked message stands in the conversation.
C25_ReplacesClickedMessage ==
    [][(ViewAllSucceeded(answered') /\ ~crashed /\ StillThere(answered'.fetch, messages))
          => messages' =
                 [messages EXCEPT ![answered'.fetch.clicked] =
                     AssistantMessage(PageDataOf[answered'.fetch.query, TRUE],
                                      answered'.fetch.query)]]_vars

\* what the page does: the response replaces the last assistant message of the
\* conversation, which is the clicked one only when no assistant message follows it
C25_ReplacesLastAssistantMessage ==
    [][(ViewAllSucceeded(answered') /\ ~crashed)
          => LET last == {i \in DOMAIN messages : messages[i].role = "assistant"}
             IN  IF last = {} THEN messages' = messages
                 ELSE messages' =
                          [messages EXCEPT
                              ![CHOOSE i \in last : \A j \in last : j <= i] =
                                  AssistantMessage(
                                      PageDataOf[answered'.fetch.query, TRUE],
                                      answered'.fetch.query)]]_vars

\* the response to a 'View all' click on the second message replaced an error
\* message that followed it and left the clicked message with its three records
C25_Misplaced ==
    /\ ~crashed
    /\ ViewAllSucceeded(answered)
    /\ answered.fetch.clicked = 2
    /\ Len(messages) = 3
    /\ messages[2] = answered.fetch.message
    /\ ShowsViewAll(messages[2])
    /\ messages[3] = AssistantMessage(PageDataOf[answered.fetch.query, TRUE],
                                      answered.fetch.query)

====
